---------------------------- MODULE Spec2Model ----------------------------
(***************************************************************************)
(* oot_bitset: a flag codec over a caller-owned array of uint16_t words.   *)
(* A 16-bit flag ID addresses one bit: the upper 12 bits are the word      *)
(* index, the lower 4 bits the bit index.  The module models               *)
(*   - the codec's pure functions (bitset_index, bitset_mask),             *)
(*   - a single caller that tests, sets and clears flags (as example.c),   *)
(*   - a caller that passes a flag past the end of its array,              *)
(*   - two threads that set/clear flags of one array concurrently.         *)
(***************************************************************************)
EXTENDS Integers, FiniteSets

VARIABLES
    mem,        \* memory at set[0], set[1], ...: the caller's array is
                \* mem[0..NWords-1]; mem[NWords] is the word that follows it
    mem0,       \* the content of mem when the caller got it
    last,       \* per flag: the most recent of set/clear applied to it
    op,         \* the most recent call of the sequential caller
    fault,      \* the process died on an access outside the array
    codec,      \* the codec's pure functions applied to one flag ID
    thr,        \* per thread: its call and how far it got
    serialized  \* the threads' caller serializes the calls

vars == <<mem, mem0, last, op, fault, codec, thr, serialized>>

-----------------------------------------------------------------------------
(* Bounds of the model *)

\* length of the caller's array (example.c: flags[2])
NWords == 2

-----------------------------------------------------------------------------
(* C integer arithmetic.  uint16_t operands are promoted to int, so the   *)
(* bitwise operators act on two's-complement integers; \div and % floor,   *)
(* which is the arithmetic shift on that representation.                   *)

UINT16_MAX == 65535

\* conversion of an int to uint16_t (return and assignment narrowing)
Narrow16(x) == x % (UINT16_MAX + 1)

\* x >> n
RECURSIVE ShiftRight(_, _)
ShiftRight(x, n) == IF n = 0 THEN x ELSE ShiftRight(x \div 2, n - 1)

\* x << n (the operand is 1u and n <= 15 in the code: no 32-bit wrap)
RECURSIVE ShiftLeft(_, _)
ShiftLeft(x, n) == IF n = 0 THEN x ELSE ShiftLeft(2 * x, n - 1)

\* x & y
RECURSIVE And(_, _)
And(x, y) ==
    IF x = 0 \/ y = 0 THEN 0
    ELSE IF x = -1 THEN y
    ELSE IF y = -1 THEN x
    ELSE (IF x % 2 = 1 /\ y % 2 = 1 THEN 1 ELSE 0) + 2 * And(x \div 2, y \div 2)

\* x | y
RECURSIVE Or(_, _)
Or(x, y) ==
    IF x = 0 THEN y
    ELSE IF y = 0 THEN x
    ELSE IF x = -1 \/ y = -1 THEN -1
    ELSE (IF x % 2 = 1 \/ y % 2 = 1 THEN 1 ELSE 0) + 2 * Or(x \div 2, y \div 2)

\* ~x
Not(x) == -x - 1

-----------------------------------------------------------------------------
(* The codec.  Each function is preceded by variants of it with a defect,  *)
(* which the properties below must tell from the function itself.          *)

\* static inline uint16_t bitset_index(uint16_t flag) { return flag >> 4; }
bitset_index_off_by_one(flag) == Narrow16(ShiftRight(flag, 4)) + 1
bitset_index_wrapped(flag) == Narrow16(ShiftRight(flag, 4)) % NWords
bitset_index_shift5(flag) == Narrow16(ShiftRight(flag, 5))
bitset_index(flag) == Narrow16(ShiftRight(flag, 4))

\* the bit index: flag & 0xF
bitset_bit_mask7(flag) == And(flag, 7)
bitset_bit(flag) == And(flag, 15)

\* static inline uint16_t bitset_mask(uint16_t flag) { return 1u << (flag & 0xF); }
bitset_mask_no_shift(flag) == Narrow16(bitset_bit(flag) + 1)
bitset_mask(flag) == Narrow16(ShiftLeft(1, bitset_bit(flag)))

\* #define bitset_word(set, flag) ((set)[bitset_index(flag)])
bitset_word(set, flag) == set[bitset_index(flag)]

\* return (bitset_word(set, flag) & bitset_mask(flag)) != 0;
bitset_get(set, flag) == And(bitset_word(set, flag), bitset_mask(flag)) # 0

\* the word that bitset_set stores: word | mask, narrowed to uint16_t
set_word_assign(word, flag) == Narrow16(bitset_mask(flag))
set_word_toggle(word, flag) ==
    Narrow16(Or(word, bitset_mask(flag)) - And(word, bitset_mask(flag)))
set_word(word, flag) == Narrow16(Or(word, bitset_mask(flag)))

\* the word that bitset_clear stores: word & ~mask, narrowed to uint16_t
clear_word_no_complement(word, flag) == Narrow16(And(word, bitset_mask(flag)))
clear_word_zero(word, flag) == 0
clear_word(word, flag) == Narrow16(And(word, Not(bitset_mask(flag))))

\* bitset_word(set, flag) |= bitset_mask(flag);
bitset_set(set, flag) ==
    [set EXCEPT ![bitset_index(flag)] = set_word(@, flag)]

\* bitset_word(set, flag) &= ~bitset_mask(flag);
bitset_clear(set, flag) ==
    [set EXCEPT ![bitset_index(flag)] = clear_word(@, flag)]

-----------------------------------------------------------------------------
(* The callers' inputs *)

\* the flag ID of a (word index, bit index) pair: [ word index ][ bit index ]
FlagOf(w, b) == 16 * w + b

\* the bits of word w the caller uses: those of example.c's enum in its
\* two words (0x02, 0x04; 0x10, 0x1A), the top bit of the first word, and
\* one bit in every further word
BitsUsed(w) == IF w = 0 THEN {2, 4, 15} ELSE IF w = 1 THEN {0, 10} ELSE {10}
FlagsOfWord(w) == {FlagOf(w, b) : b \in BitsUsed(w)}
Flags == UNION {FlagsOfWord(w) : w \in 0 .. NWords - 1}

\* a flag ID whose word is the one after the array: a misuse
MisuseFlags == {FlagOf(NWords, 2)}

\* what the array holds when the caller gets it: zeroed (uint16_t
\* flags[2] = {0}) or loaded with words from elsewhere
InitialWords == {0, 32801}
InitialMems ==
    {[i \in 0 .. NWords |-> IF i < NWords THEN v ELSE 0] : v \in InitialWords}

NoOp ==
    [kind |-> "none", flag |-> 0, word |-> 0, ret |-> FALSE, err |-> FALSE,
     again |-> FALSE]
IdleCodec == [flag |-> 0, index |-> -1, bit |-> -1, mask |-> -1]
IdleThreads == [t \in {1, 2} |-> [pc |-> "idle", kind |-> "none", flag |-> 0, tmp |-> 0]]

\* a call as its caller sees it: the word it accessed, what it returned
\* (bool for bitset_get, nothing for the void functions), whether it
\* reported an error (no function has an error path), and whether it
\* repeats the call before it
Call(kind, flag, ret) ==
    [kind |-> kind, flag |-> flag, word |-> bitset_index(flag), ret |-> ret,
     err |-> FALSE, again |-> (op.kind = kind /\ op.flag = flag)]

-----------------------------------------------------------------------------
(* The sequential caller *)

Init ==
    /\ mem \in InitialMems
    /\ mem0 = mem
    /\ last = [f \in Flags \cup MisuseFlags |-> "none"]
    /\ op = NoOp
    /\ fault = FALSE
    /\ codec = IdleCodec
    /\ thr = IdleThreads
    /\ serialized = TRUE

\* is_set = bitset_get(flags, flag);
CallGet(f) ==
    /\ ~fault
    /\ op' = Call("get", f, bitset_get(mem, f))
    /\ UNCHANGED <<mem, mem0, last, fault, codec, thr, serialized>>

\* bitset_set(flags, flag);
CallSet(f) ==
    /\ ~fault
    /\ mem' = bitset_set(mem, f)
    /\ last' = [last EXCEPT ![f] = "set"]
    /\ op' = Call("set", f, FALSE)
    /\ UNCHANGED <<mem0, fault, codec, thr, serialized>>

\* bitset_clear(flags, flag);
CallClear(f) ==
    /\ ~fault
    /\ mem' = bitset_clear(mem, f)
    /\ last' = [last EXCEPT ![f] = "clear"]
    /\ op' = Call("clear", f, FALSE)
    /\ UNCHANGED <<mem0, fault, codec, thr, serialized>>

Next ==
    \E f \in Flags : CallGet(f) \/ CallSet(f) \/ CallClear(f)

Spec == Init /\ [][Next]_vars

-----------------------------------------------------------------------------
(* The caller that breaks the precondition "the array must contain at      *)
(* least bitset_index(flag) + 1 elements".  set[bitset_index(flag)] is     *)
(* then an access past the end of the array: undefined behaviour, which a  *)
(* build turns into an access to the memory that follows the array, or     *)
(* into a fault when that memory is not mapped.                            *)

Fault(f) ==
    /\ ~fault
    /\ fault' = TRUE
    /\ op' = [Call("fault", f, FALSE) EXCEPT !.again = FALSE]
    /\ UNCHANGED <<mem, mem0, last, codec, thr, serialized>>

NextMisuse ==
    \/ Next
    \/ \E f \in MisuseFlags : CallGet(f) \/ CallSet(f) \/ CallClear(f) \/ Fault(f)

SpecMisuse == Init /\ [][NextMisuse]_vars

-----------------------------------------------------------------------------
(* The pure functions, applied to every 16-bit flag ID *)

FlagIds == 0 .. UINT16_MAX

InitCodec ==
    /\ codec \in {[IdleCodec EXCEPT !.flag = f] : f \in FlagIds}
    /\ mem = [i \in 0 .. NWords |-> 0]
    /\ mem0 = mem
    /\ last = [f \in Flags \cup MisuseFlags |-> "none"]
    /\ op = NoOp
    /\ fault = FALSE
    /\ thr = IdleThreads
    /\ serialized = TRUE

\* bitset_index(flag)
CallIndex ==
    /\ codec.index = -1
    /\ codec' = [codec EXCEPT !.index = bitset_index(codec.flag)]
    /\ UNCHANGED <<mem, mem0, last, op, fault, thr, serialized>>

\* bitset_mask(flag), and the bit index it shifts by
CallMask ==
    /\ codec.mask = -1
    /\ codec' = [codec EXCEPT !.bit = bitset_bit(codec.flag),
                              !.mask = bitset_mask(codec.flag)]
    /\ UNCHANGED <<mem, mem0, last, op, fault, thr, serialized>>

NextCodec == CallIndex \/ CallMask

SpecCodec == InitCodec /\ [][NextCodec]_vars

-----------------------------------------------------------------------------
(* Two threads, one call each, on the same array.  bitset_set and          *)
(* bitset_clear are a plain load of the word, the bit operation and a      *)
(* plain store; the codec takes no lock.  A caller that serializes lets a  *)
(* call start only when no other call is between its load and its store.   *)

Threads == {1, 2}
Other(t) == 3 - t

InitRace ==
    /\ mem \in InitialMems
    /\ mem0 = mem
    /\ serialized \in BOOLEAN
    /\ thr = IdleThreads
    /\ last = [f \in Flags \cup MisuseFlags |-> "none"]
    /\ op = NoOp
    /\ fault = FALSE
    /\ codec = IdleCodec

\* the load of bitset_word(set, flag) in "bitset_word(set, flag) op= ..."
ThreadLoad(t, kind, f) ==
    /\ thr[t].pc = "idle"
    /\ serialized => thr[Other(t)].pc # "loaded"
    /\ thr' = [thr EXCEPT ![t] =
                  [pc |-> "loaded", kind |-> kind, flag |-> f,
                   tmp |-> bitset_word(mem, f)]]
    /\ UNCHANGED <<mem, mem0, last, op, fault, codec, serialized>>

\* the store of bitset_set: word | mask, of the word loaded before
ThreadStoreSet(t) ==
    /\ thr[t].pc = "loaded"
    /\ thr[t].kind = "set"
    /\ mem' = [mem EXCEPT ![bitset_index(thr[t].flag)] =
                  set_word(thr[t].tmp, thr[t].flag)]
    /\ thr' = [thr EXCEPT ![t].pc = "done"]
    /\ UNCHANGED <<mem0, last, op, fault, codec, serialized>>

\* the store of bitset_clear: word & ~mask, of the word loaded before
ThreadStoreClear(t) ==
    /\ thr[t].pc = "loaded"
    /\ thr[t].kind = "clear"
    /\ mem' = [mem EXCEPT ![bitset_index(thr[t].flag)] =
                  clear_word(thr[t].tmp, thr[t].flag)]
    /\ thr' = [thr EXCEPT ![t].pc = "done"]
    /\ UNCHANGED <<mem0, last, op, fault, codec, serialized>>

NextRace ==
    \E t \in Threads :
        \/ \E f \in Flags : ThreadLoad(t, "set", f) \/ ThreadLoad(t, "clear", f)
        \/ ThreadStoreSet(t)
        \/ ThreadStoreClear(t)

SpecRace == InitRace /\ [][NextRace]_vars

-----------------------------------------------------------------------------
(* Arithmetic the properties are stated in, independent of the bitwise     *)
(* operators above                                                         *)

\* bit b of word, by division
BitOf(word, b) == (word \div (2 ^ b)) % 2

\* the number of bits set in a 16-bit word
PopCount(word) == Cardinality({b \in 0 .. 15 : BitOf(word, b) = 1})

\* the caller's array was all-zero when the caller got it
ZeroInit == \A i \in 0 .. NWords - 1 : mem0[i] = 0

\* the word index of a flag is within the caller's array
InRange(f) == f \div 16 < NWords

\* the flags that were never set or cleared
Untouched == {f \in Flags : last[f] = "none"}

-----------------------------------------------------------------------------
(* C1: from an all-zero array, bitset_get of a flag is true exactly when   *)
(* the most recent set/clear applied to that flag was a set: false before  *)
(* any call, true after bitset_set, false again after bitset_clear.        *)

C1_RoundTrip ==
    ZeroInit =>
        /\ \A f \in Flags : bitset_get(mem, f) <=> (last[f] = "set")
        /\ op.kind = "get" => (op.ret <=> (last[op.flag] = "set"))

\* a get that returned false for a cleared flag whose word holds a set flag
C1_Witness ==
    /\ ZeroInit
    /\ op.kind = "get" /\ ~op.ret /\ last[op.flag] = "clear"
    /\ \E g \in FlagsOfWord(op.word) : last[g] = "set" /\ bitset_get(mem, g)

-----------------------------------------------------------------------------
(* C2: bitset_set and bitset_clear of one flag leave bitset_get of every   *)
(* other flag unchanged: of the caller's flags in any word, and of all 16  *)
(* flag IDs of the word the call addressed; a flag's bit changes only in a *)
(* set/clear called with its own ID.                                       *)

C2_Independence ==
    [][mem' # mem =>
          \A g \in Flags \cup {FlagOf(op'.flag \div 16, b) : b \in 0 .. 15} :
              (bitset_get(mem', g) # bitset_get(mem, g))
                  => (op'.flag = g /\ op'.kind \in {"set", "clear"})]_vars

\* a set or clear in a word where another flag is set and a third cleared
C2_Witness ==
    /\ op.kind \in {"set", "clear"}
    /\ \E g, h \in FlagsOfWord(op.word) \ {op.flag} :
          /\ last[g] = "set" /\ bitset_get(mem, g)
          /\ last[h] = "clear" /\ ~bitset_get(mem, h)

-----------------------------------------------------------------------------
(* C3: for every 16-bit flag ID, bitset_index is id div 16, within         *)
(* 0..4095, and the bit index is id mod 16, within 0..15.                  *)

C3_Locate ==
    /\ codec.index # -1 =>
          codec.index = codec.flag \div 16 /\ codec.index \in 0 .. 4095
    /\ codec.bit # -1 =>
          codec.bit = codec.flag % 16 /\ codec.bit \in 0 .. 15

\* 0x1AC -> word 26, bit 12
C3_Witness == codec.flag = 428 /\ codec.index = 26 /\ codec.bit = 12

-----------------------------------------------------------------------------
(* C4: for every 16-bit flag ID, bitset_mask has exactly one bit set, at   *)
(* position id mod 16: it is 2^(id mod 16), never zero, at most 0x8000.    *)

C4_Mask ==
    codec.mask # -1 =>
        /\ codec.mask \in 1 .. 32768
        /\ PopCount(codec.mask) = 1
        /\ BitOf(codec.mask, codec.flag % 16) = 1
        /\ codec.mask = 2 ^ (codec.flag % 16)

\* the top bit survives the narrowing: 0xFFFF -> 0x8000
C4_Witness == codec.flag = 65535 /\ codec.mask = 32768

-----------------------------------------------------------------------------
(* C5: a bitset_set that repeats the call before it leaves the whole       *)
(* memory as the first left it; so does a repeated bitset_clear.           *)

C5_Idempotent ==
    [][(op'.again /\ op'.kind \in {"set", "clear"}) => mem' = mem]_vars

\* a repeated set on a word that the first set had changed
C5_Witness ==
    /\ op.again /\ op.kind = "set"
    /\ mem[op.word] # mem0[op.word]

-----------------------------------------------------------------------------
(* C6: the location of a flag ID determines the ID (id = word * 16 + bit), *)
(* so no two 16-bit IDs share a (word, bit) pair; the pair lies in         *)
(* 0..4095 x 0..15, each such pair (w, b) is the location of w * 16 + b,   *)
(* and no ID that differs in one binary digit has the same location.       *)

C6_NoAliasing ==
    (codec.index # -1 /\ codec.bit # -1) =>
        /\ FlagOf(codec.index, codec.bit) = codec.flag
        /\ codec.index \in 0 .. 4095 /\ codec.bit \in 0 .. 15
        /\ LET w == codec.flag \div 16
               b == codec.flag % 16
           IN <<bitset_index(FlagOf(w, b)), bitset_bit(FlagOf(w, b))>> = <<w, b>>
        /\ \A k \in 0 .. 15 :
              LET id2 == IF BitOf(codec.flag, k) = 1
                         THEN codec.flag - 2 ^ k ELSE codec.flag + 2 ^ k
              IN <<bitset_index(id2), bitset_bit(id2)>>
                    # <<codec.index, codec.bit>>

\* the last pair, (4095, 15), is the location of 0xFFFF
C6_Witness == codec.index = 4095 /\ codec.bit = 15 /\ codec.flag = 65535

-----------------------------------------------------------------------------
(* C7: 0xFFFF maps to word 4095, bit 15; a call accesses the word at       *)
(* bitset_index(id) = id div 16 and writes no other; so with every flag's  *)
(* word index below the array's length no call ever accesses a position    *)
(* outside the array, and the memory after the array keeps its content.    *)

C7_BoundsSafe ==
    /\ [](/\ bitset_index(UINT16_MAX) = 4095 /\ bitset_bit(UINT16_MAX) = 15
          /\ op.kind # "none" =>
                op.word = op.flag \div 16 /\ op.word \in 0 .. NWords - 1
          /\ mem[NWords] = mem0[NWords]
          /\ ~fault)
    /\ [][/\ \A i \in 0 .. NWords : i # op'.flag \div 16 => mem'[i] = mem[i]
          /\ op'.kind = "get" => mem' = mem]_vars

\* a set changed the array's last word, next to the end of the array
C7_Witness ==
    /\ op.kind = "set" /\ op.word = NWords - 1
    /\ mem[op.word] # mem0[op.word]
    /\ mem[NWords] = mem0[NWords]

-----------------------------------------------------------------------------
(* C8, as claimed: a call whose flag has a word index not below the        *)
(* array's length reports an error to its caller and neither reads nor     *)
(* modifies memory outside the array.                                      *)

C8_MisuseReported ==
    (op.kind # "none" /\ ~InRange(op.flag)) =>
        /\ op.err
        /\ op.word \in 0 .. NWords - 1
        /\ mem[NWords] = mem0[NWords]

(* C8, amended: no call reports anything: the codec does not check the     *)
(* word index.  A call with a word index not below the array's length      *)
(* accesses set[bitset_index(id)] past the end of the array: it faults, or *)
(* bitset_get returns a bit of the memory after the array and bitset_set / *)
(* bitset_clear change that bit.  A call with a word index below the       *)
(* array's length leaves the memory after the array alone.                 *)

C8_MisuseUnchecked ==
    /\ [](op.kind # "none" =>
            /\ ~op.err
            /\ op.word = op.flag \div 16
            /\ (~InRange(op.flag) /\ op.kind = "set") =>
                  BitOf(mem[op.flag \div 16], op.flag % 16) = 1
            /\ (~InRange(op.flag) /\ op.kind = "clear") =>
                  BitOf(mem[op.flag \div 16], op.flag % 16) = 0
            /\ (~InRange(op.flag) /\ op.kind = "get") =>
                  (op.ret <=> BitOf(mem[op.flag \div 16], op.flag % 16) = 1))
    /\ [][InRange(op'.flag) => (mem'[NWords] = mem[NWords] /\ fault' = fault)]_vars

\* a bitset_set past the end changed the word after the array, unreported
C8_Witness ==
    /\ op.kind = "set" /\ ~InRange(op.flag) /\ ~op.err /\ ~fault
    /\ mem[NWords] # mem0[NWords]
    /\ \A i \in 0 .. NWords - 1 : mem[i] = mem0[i]

-----------------------------------------------------------------------------
(* C9: bitset_set makes the addressed word the old word with bit           *)
(* id mod 16 set (old OR mask), bitset_clear the old word with that bit    *)
(* cleared (old AND NOT mask); the result is a 16-bit value and every      *)
(* other word is unchanged.  From a zeroed array: set(0x02) gives          *)
(* word[0] = 4; set(0x04), set(0x1A) give word[0] = 0x0010 and             *)
(* word[1] = 0x0400; clear(0x04) then gives word[0] = 0, word[1] = 0x0400. *)

C9_ExactWord ==
    /\ [][LET w == op'.flag \div 16
              b == op'.flag % 16
              bit == BitOf(mem[w], b) * 2 ^ b
          IN /\ mem'[w] \in 0 .. UINT16_MAX
             /\ op'.kind = "set" => mem'[w] = mem[w] - bit + 2 ^ b
             /\ op'.kind = "clear" => mem'[w] = mem[w] - bit
             /\ \A i \in 0 .. NWords : i # w => mem'[i] = mem[i]]_vars
    /\ []((ZeroInit /\ Untouched = Flags \ {2} /\ last[2] = "set")
              => mem[0] = 4)
    /\ []((ZeroInit /\ Untouched = Flags \ {4, 26}
                    /\ last[4] = "set" /\ last[26] = "set")
              => (mem[0] = 16 /\ mem[1] = 1024))
    /\ []((ZeroInit /\ Untouched = Flags \ {4, 26}
                    /\ last[4] = "clear" /\ last[26] = "set")
              => (mem[0] = 0 /\ mem[1] = 1024))

\* set(0x04), set(0x1A), clear(0x04) on the zeroed array
C9_Witness ==
    /\ ZeroInit /\ Untouched = Flags \ {4, 26}
    /\ last[4] = "clear" /\ last[26] = "set"
    /\ op.kind = "clear" /\ op.flag = 4
    /\ mem[0] = 0 /\ mem[1] = 1024

-----------------------------------------------------------------------------
(* C10: when the caller serializes the two threads' calls, the final       *)
(* memory is that of a serial order: the bit of each thread's flag is as   *)
(* that thread (or, for a common flag, one of the threads) left it, and    *)
(* every other bit is as it was.  Without serialization a state is         *)
(* reachable where a thread's update of its own flag is lost.              *)

BothDone == \A t \in Threads : thr[t].pc = "done"

\* the value a thread's call gives its flag's bit
Wanted(t) == IF thr[t].kind = "set" THEN 1 ELSE 0

C10_SerializedIsSerial ==
    (BothDone /\ serialized) =>
        \A i \in 0 .. NWords - 1 : \A b \in 0 .. 15 :
            LET callers == {t \in Threads : thr[t].flag = FlagOf(i, b)}
            IN IF callers = {}
               THEN BitOf(mem[i], b) = BitOf(mem0[i], b)
               ELSE \E t \in callers : BitOf(mem[i], b) = Wanted(t)

\* the memory after thread a's call and then thread b's, one after the other
SerialOrder(a, b) ==
    LET do(m, t) == IF thr[t].kind = "set" THEN bitset_set(m, thr[t].flag)
                    ELSE bitset_clear(m, thr[t].flag)
    IN do(do(mem0, a), b)

\* unserialized calls on two flags of one word: one update is lost, and
\* the memory is that of neither serial order
C10_LostUpdate ==
    /\ BothDone /\ ~serialized
    /\ thr[1].flag # thr[2].flag
    /\ \E t \in Threads : BitOf(mem[thr[t].flag \div 16], thr[t].flag % 16) # Wanted(t)
    /\ mem # SerialOrder(1, 2) /\ mem # SerialOrder(2, 1)

=============================================================================
